---- MODULE Spec2Model ----
(***************************************************************************)
(* WrenchIT (src/src/extension.ts): the JSON repair pipeline.              *)
(*                                                                         *)
(* A JavaScript string is modelled as a sequence of characters, each       *)
(* character a TLA+ string: "a", "/", "\"", "\\", ...  Characters that     *)
(* have no TLA+ escape are named tokens (BOM, BSP).                        *)
(***************************************************************************)
EXTENDS Integers, Sequences, FiniteSets, TLC

\* ------------------------------------------------------------------------
\* Characters and character classes
\* ------------------------------------------------------------------------

DQ == "\""
BS == "\\"
SL == "/"
LF == "\n"
CR == "\r"
TAB == "\t"
FF == "\f"
BSP == "BSP"
BOM == "BOM"

Lower == <<"a","b","c","d","e","f","g","h","i","j","k","l","m",
           "n","o","p","q","r","s","t","u","v","w","x","y","z">>

Upper == <<"A","B","C","D","E","F","G","H","I","J","K","L","M",
           "N","O","P","Q","R","S","T","U","V","W","X","Y","Z">>

Digits == <<"0","1","2","3","4","5","6","7","8","9">>

Range(f) == { f[i] : i \in DOMAIN f }

IsDigit(c) == c \in Range(Digits)

IsLetter(c) == c \in Range(Lower) \cup Range(Upper)

\* The class [A-Za-z0-9._-] of the negative lookbehinds.
IsWordish(c) == IsLetter(c) \/ IsDigit(c) \/ c \in {".", "_", "-"}

\* The class [\\/] of the slash-delimiter regular expressions.
IsSlashChar(c) == c \in {BS, SL}

\* JSON's insignificant whitespace (what JSON.parse skips).
IsJsonWs(c) == c \in {" ", TAB, LF, CR}

\* ECMAScript WhiteSpace and LineTerminator: what trim() removes and what
\* \s matches.  U+FEFF belongs to it.
IsJsSpace(c) == c \in {" ", TAB, LF, CR, FF, BOM}

\* Characters below U+0020, which a JSON string literal may not hold raw.
IsControl(c) == c \in {TAB, LF, CR, FF, BSP}

\* ------------------------------------------------------------------------
\* String primitives of the platform
\* ------------------------------------------------------------------------

\* s.slice(a - 1, b) for 1 <= a: the characters at (1-based) a..b.
Sub(s, a, b) == IF a > b THEN << >> ELSE SubSeq(s, a, b)

\* s.startsWith(p, i - 1): p occurs in s at (1-based) position i.
OccursAt(s, p, i) ==
    /\ i >= 1
    /\ i + Len(p) - 1 <= Len(s)
    /\ \A k \in 1..Len(p) : s[i + k - 1] = p[k]

\* s.indexOf(p, from - 1), 1-based; 0 when there is none.
RECURSIVE IndexOf(_, _, _)
IndexOf(s, p, from) ==
    IF from + Len(p) - 1 > Len(s) THEN 0
    ELSE IF OccursAt(s, p, from) THEN from
    ELSE IndexOf(s, p, from + 1)

ReplaceAt(s, p, r, i) ==
    IF i = 0 THEN s ELSE Sub(s, 1, i - 1) \o r \o Sub(s, i + Len(p), Len(s))

\* s.replace(p, r) with a string pattern: the first occurrence only.
ReplaceFirst(s, p, r) == ReplaceAt(s, p, r, IndexOf(s, p, 1))

\* s.replace(/p/g, r) for a pattern that is a literal character sequence:
\* every occurrence, left to right, without overlap.
RECURSIVE ReplaceAllFrom(_, _, _, _)
ReplaceAllFrom(s, p, r, i) ==
    IF i > Len(s) THEN << >>
    ELSE IF OccursAt(s, p, i) THEN r \o ReplaceAllFrom(s, p, r, i + Len(p))
    ELSE <<s[i]>> \o ReplaceAllFrom(s, p, r, i + 1)

ReplaceAll(s, p, r) == ReplaceAllFrom(s, p, r, 1)

\* First index >= i whose character does not satisfy the class, Len(s)+1 if none.
RECURSIVE SkipJsSpace(_, _)
SkipJsSpace(s, i) ==
    IF i <= Len(s) /\ IsJsSpace(s[i]) THEN SkipJsSpace(s, i + 1) ELSE i

RECURSIVE SkipJsSpaceBack(_, _)
SkipJsSpaceBack(s, j) ==
    IF j >= 1 /\ IsJsSpace(s[j]) THEN SkipJsSpaceBack(s, j - 1) ELSE j

\* s.trim()
Trim(s) == Sub(s, SkipJsSpace(s, 1), SkipJsSpaceBack(s, Len(s)))

RECURSIVE SkipSlashChars(_, _)
SkipSlashChars(s, i) ==
    IF i <= Len(s) /\ IsSlashChar(s[i]) THEN SkipSlashChars(s, i + 1) ELSE i

RECURSIVE SkipForwardSlashes(_, _)
SkipForwardSlashes(s, i) ==
    IF i <= Len(s) /\ s[i] = SL THEN SkipForwardSlashes(s, i + 1) ELSE i

RECURSIVE SkipSlashCharsBack(_, _)
SkipSlashCharsBack(s, j) ==
    IF j >= 1 /\ IsSlashChar(s[j]) THEN SkipSlashCharsBack(s, j - 1) ELSE j

\* ------------------------------------------------------------------------
\* JSON.parse
\* ------------------------------------------------------------------------

HexDigits == <<"0","1","2","3","4","5","6","7","8","9","a","b","c","d","e","f">>

HexUpper == <<"0","1","2","3","4","5","6","7","8","9","A","B","C","D","E","F">>

IsHex(c) == c \in Range(HexDigits) \cup Range(HexUpper)

HexVal(c) ==
    IF c \in Range(HexDigits)
    THEN (CHOOSE k \in DOMAIN HexDigits : HexDigits[k] = c) - 1
    ELSE (CHOOSE k \in DOMAIN HexUpper : HexUpper[k] = c) - 1

\* The character with the given UTF-16 code unit.
CharOfCode(n) ==
    CASE n = 34 -> DQ
      [] n = 92 -> BS
      [] n = 47 -> SL
      [] n = 10 -> LF
      [] n = 13 -> CR
      [] n = 9 -> TAB
      [] n = 12 -> FF
      [] n = 8 -> BSP
      [] n = 65279 -> BOM
      [] n = 32 -> " "
      [] n = 44 -> ","
      [] n = 45 -> "-"
      [] n = 46 -> "."
      [] n = 58 -> ":"
      [] n = 91 -> "["
      [] n = 93 -> "]"
      [] n = 95 -> "_"
      [] n = 123 -> "{"
      [] n = 125 -> "}"
      [] n \in 48..57 -> Digits[n - 47]
      [] n \in 65..90 -> Upper[n - 64]
      [] n \in 97..122 -> Lower[n - 96]
      [] OTHER -> "U+" \o ToString(n)

NoParse == [ok |-> FALSE, pos |-> 0, kind |-> "none", str |-> << >>, val |-> << >>]

\* JSON.stringify of a string: the canonical text of a string value.
RECURSIVE QuoteChars(_, _)
QuoteChars(t, i) ==
    IF i > Len(t) THEN << >>
    ELSE (CASE t[i] = DQ -> <<BS, DQ>>
            [] t[i] = BS -> <<BS, BS>>
            [] t[i] = LF -> <<BS, "n">>
            [] t[i] = CR -> <<BS, "r">>
            [] t[i] = TAB -> <<BS, "t">>
            [] t[i] = FF -> <<BS, "f">>
            [] t[i] = BSP -> <<BS, "b">>
            [] OTHER -> <<t[i]>>) \o QuoteChars(t, i + 1)

QuoteStr(t) == <<DQ>> \o QuoteChars(t, 1) \o <<DQ>>

\* The body of a string literal from position j (after the opening quote),
\* acc the characters decoded so far.
RECURSIVE ParseStrFrom(_, _, _)
ParseStrFrom(s, j, acc) ==
    IF j > Len(s) THEN NoParse
    ELSE IF s[j] = DQ
    THEN [ok |-> TRUE, pos |-> j + 1, kind |-> "string", str |-> acc, val |-> QuoteStr(acc)]
    ELSE IF IsControl(s[j]) THEN NoParse
    ELSE IF s[j] # BS THEN ParseStrFrom(s, j + 1, Append(acc, s[j]))
    ELSE IF j + 1 > Len(s) THEN NoParse
    ELSE LET e == s[j + 1]
         IN  CASE e \in {DQ, BS, SL} -> ParseStrFrom(s, j + 2, Append(acc, e))
               [] e = "b" -> ParseStrFrom(s, j + 2, Append(acc, BSP))
               [] e = "f" -> ParseStrFrom(s, j + 2, Append(acc, FF))
               [] e = "n" -> ParseStrFrom(s, j + 2, Append(acc, LF))
               [] e = "r" -> ParseStrFrom(s, j + 2, Append(acc, CR))
               [] e = "t" -> ParseStrFrom(s, j + 2, Append(acc, TAB))
               [] e = "u" ->
                    IF j + 5 <= Len(s) /\ \A k \in 2..5 : IsHex(s[j + k])
                    THEN ParseStrFrom(s, j + 6,
                            Append(acc, CharOfCode(4096 * HexVal(s[j + 2]) + 256 * HexVal(s[j + 3])
                                                   + 16 * HexVal(s[j + 4]) + HexVal(s[j + 5]))))
                    ELSE NoParse
               [] OTHER -> NoParse

RECURSIVE SkipDigits(_, _)
SkipDigits(s, i) ==
    IF i <= Len(s) /\ IsDigit(s[i]) THEN SkipDigits(s, i + 1) ELSE i

NumberResult(s, i, e) ==
    [ok |-> TRUE, pos |-> e, kind |-> "number", str |-> << >>, val |-> Sub(s, i, e - 1)]

\* ([eE][+-]?[0-9]+)? from position c; d is where the exponent's digits start.
NumberExpDigits(s, i, d, e) == IF e > d THEN NumberResult(s, i, e) ELSE NoParse

NumberExp(s, i, c) ==
    IF c <= Len(s) /\ s[c] \in {"e", "E"}
    THEN (IF c + 1 <= Len(s) /\ s[c + 1] \in {"+", "-"}
          THEN NumberExpDigits(s, i, c + 2, SkipDigits(s, c + 2))
          ELSE NumberExpDigits(s, i, c + 1, SkipDigits(s, c + 1)))
    ELSE NumberResult(s, i, c)

\* (\.[0-9]+)? from position b
NumberFracDigits(s, i, b, c) == IF c > b + 1 THEN NumberExp(s, i, c) ELSE NoParse

NumberFrac(s, i, b) ==
    IF b <= Len(s) /\ s[b] = "."
    THEN NumberFracDigits(s, i, b, SkipDigits(s, b + 1))
    ELSE NumberExp(s, i, b)

\* (0|[1-9][0-9]*) from position a
NumberIntDigits(s, i, a, b) == IF b > a THEN NumberFrac(s, i, b) ELSE NoParse

NumberInt(s, i, a) ==
    IF a <= Len(s) /\ s[a] = "0" THEN NumberFrac(s, i, a + 1)
    ELSE NumberIntDigits(s, i, a, SkipDigits(s, a))

\* A JSON number at position i: -?(0|[1-9][0-9]*)(\.[0-9]+)?([eE][+-]?[0-9]+)?
ParseNumber(s, i) == NumberInt(s, i, IF i <= Len(s) /\ s[i] = "-" THEN i + 1 ELSE i)

ParseLiteral(s, i, word) ==
    IF OccursAt(s, word, i)
    THEN [ok |-> TRUE, pos |-> i + Len(word), kind |-> "literal", str |-> << >>, val |-> word]
    ELSE NoParse

RECURSIVE SkipJsonWs(_, _)
SkipJsonWs(s, i) ==
    IF i <= Len(s) /\ IsJsonWs(s[i]) THEN SkipJsonWs(s, i + 1) ELSE i

RECURSIVE ParseValue(_, _)
RECURSIVE ParseElements(_, _, _)
RECURSIVE ParseMembers(_, _, _)

\* After the element v of an array; j is the position after v and whitespace.
ElementEnd(s, acc, v, j) ==
    IF j > Len(s) THEN NoParse
    ELSE IF s[j] = "]"
    THEN [ok |-> TRUE, pos |-> j + 1, kind |-> "array", str |-> << >>,
          val |-> acc \o v.val \o <<"]">>]
    ELSE IF s[j] = "," THEN ParseElements(s, j + 1, acc \o v.val \o <<",">>)
    ELSE NoParse

AfterElement(s, acc, v) ==
    IF v.ok THEN ElementEnd(s, acc, v, SkipJsonWs(s, v.pos)) ELSE NoParse

\* The elements of an array from position i (at an element), acc the canonical
\* text so far.
ParseElements(s, i, acc) == AfterElement(s, acc, ParseValue(s, SkipJsonWs(s, i)))

\* After the member k: v of an object; j is the position after v and whitespace.
MemberEnd(s, acc, k, v, j) ==
    IF j > Len(s) THEN NoParse
    ELSE IF s[j] = "}"
    THEN [ok |-> TRUE, pos |-> j + 1, kind |-> "object", str |-> << >>,
          val |-> acc \o k.val \o <<":">> \o v.val \o <<"}">>]
    ELSE IF s[j] = ","
    THEN ParseMembers(s, j + 1, acc \o k.val \o <<":">> \o v.val \o <<",">>)
    ELSE NoParse

AfterMemberValue(s, acc, k, v) ==
    IF v.ok THEN MemberEnd(s, acc, k, v, SkipJsonWs(s, v.pos)) ELSE NoParse

\* After the key k of a member; c is the position after k and whitespace.
AfterKey(s, acc, k, c) ==
    IF c > Len(s) \/ s[c] # ":" THEN NoParse
    ELSE AfterMemberValue(s, acc, k, ParseValue(s, SkipJsonWs(s, c + 1)))

MemberKey(s, acc, k) ==
    IF k.ok THEN AfterKey(s, acc, k, SkipJsonWs(s, k.pos)) ELSE NoParse

KeyAt(s, k0) ==
    IF k0 <= Len(s) /\ s[k0] = DQ THEN ParseStrFrom(s, k0 + 1, << >>) ELSE NoParse

\* The members of an object from position i (at a key).
ParseMembers(s, i, acc) == MemberKey(s, acc, KeyAt(s, SkipJsonWs(s, i)))

\* After [ and whitespace, at position j
ArrayBody(s, j) ==
    IF j <= Len(s) /\ s[j] = "]"
    THEN [ok |-> TRUE, pos |-> j + 1, kind |-> "array", str |-> << >>, val |-> <<"[", "]">>]
    ELSE ParseElements(s, j, <<"[">>)

\* After { and whitespace, at position j
ObjectBody(s, j) ==
    IF j <= Len(s) /\ s[j] = "}"
    THEN [ok |-> TRUE, pos |-> j + 1, kind |-> "object", str |-> << >>, val |-> <<"{", "}">>]
    ELSE ParseMembers(s, j, <<"{">>)

\* A JSON value at position i (no leading whitespace).
ParseValue(s, i) ==
    IF i > Len(s) THEN NoParse
    ELSE CASE s[i] = DQ -> ParseStrFrom(s, i + 1, << >>)
           [] s[i] = "[" -> ArrayBody(s, SkipJsonWs(s, i + 1))
           [] s[i] = "{" -> ObjectBody(s, SkipJsonWs(s, i + 1))
           [] s[i] = "t" -> ParseLiteral(s, i, <<"t", "r", "u", "e">>)
           [] s[i] = "f" -> ParseLiteral(s, i, <<"f", "a", "l", "s", "e">>)
           [] s[i] = "n" -> ParseLiteral(s, i, <<"n", "u", "l", "l">>)
           [] s[i] = "-" \/ IsDigit(s[i]) -> ParseNumber(s, i)
           [] OTHER -> NoParse

\* The value v must be followed by whitespace only.
WholeText(s, v) == IF v.ok /\ SkipJsonWs(s, v.pos) = Len(s) + 1 THEN v ELSE NoParse

\* JSON.parse(s): ok is FALSE where JSON.parse throws; val is the value (as
\* its canonical text), str the decoded characters of a string value.
JsonParse(s) == WholeText(s, ParseValue(s, SkipJsonWs(s, 1)))

JsonOk(s) == JsonParse(s).ok

\* ------------------------------------------------------------------------
\* Building blocks used by the strategies
\* ------------------------------------------------------------------------

\* tryUnwrapString, given inner, the outcome of JSON.parse(s)
Unwrapped(s, inner) ==
    IF inner.ok
    THEN (IF inner.kind = "string" THEN inner.str ELSE s)
    ELSE Sub(s, 2, Len(s) - 1)

\* Mutant: the slice(1, -1) fallback placed after the if, in place of return s.
TryUnwrapString_SliceOutsideGuard(s) ==
    IF Len(s) >= 1 /\ s[1] = DQ /\ s[Len(s)] = DQ /\ JsonParse(s).kind = "string"
    THEN JsonParse(s).str
    ELSE Sub(s, 2, Len(s) - 1)

\* tryUnwrapString
TryUnwrapString(s) ==
    IF Len(s) >= 1 /\ s[1] = DQ /\ s[Len(s)] = DQ
    THEN Unwrapped(s, JsonParse(s))
    ELSE s

\* wrapAndUnescape throws exactly when JSON.parse of the wrapped text throws.
WrapAndUnescapeRaises(s) == ~JsonOk(<<DQ>> \o s \o <<DQ>>)

\* typeof result === 'string' ? result : s
StringOrSelf(s, result) == IF result.kind = "string" THEN result.str ELSE s

\* wrapAndUnescape, where it does not throw.
WrapAndUnescape(s) == StringOrSelf(s, JsonParse(<<DQ>> \o s \o <<DQ>>))

\* ------------------------------------------------------------------------
\* The regular-expression substitutions
\* ------------------------------------------------------------------------

NoMatch == [len |-> 0, rep |-> << >>]

\* /(?<![A-Za-z0-9._-])/ at position i
LookbehindOk(s, i) == i = 1 \/ ~IsWordish(s[i - 1])

\* One match of /(?<![A-Za-z0-9._-])[\\/]+(")([^"]*?)[\\/]+(")/ starting at i,
\* with its replacement $1$2$3.  The first run is the whole run of [\\/] at i
\* (it must end at a quote, q1); [^"]*? cannot cross a quote, so $3 is the
\* next quote, q2, and the lazy $2 leaves the longest run of [\\/] before it
\* (e is the last position of $2).
SymContent(s, i, q1, q2, e) ==
    IF e = q2 - 1 THEN NoMatch
    ELSE [len |-> q2 - i + 1, rep |-> <<DQ>> \o Sub(s, q1 + 1, e) \o <<DQ>>]

SymClose(s, i, q1, q2) ==
    IF q2 = 0 THEN NoMatch ELSE SymContent(s, i, q1, q2, SkipSlashCharsBack(s, q2 - 1))

SymOpen(s, i, q1) ==
    IF q1 > Len(s) \/ s[q1] # DQ THEN NoMatch
    ELSE SymClose(s, i, q1, IndexOf(s, <<DQ>>, q1 + 1))

SymMatchAt(s, i) ==
    IF ~IsSlashChar(s[i]) \/ ~LookbehindOk(s, i) THEN NoMatch
    ELSE SymOpen(s, i, SkipSlashChars(s, i))

SymEmit(s, i, m) ==
    IF m.len > 0 THEN [out |-> m.rep, next |-> i + m.len]
    ELSE [out |-> <<s[i]>>, next |-> i + 1]

RECURSIVE SymFrom(_, _)
SymStep(s, e) == e.out \o SymFrom(s, e.next)

SymFrom(s, i) ==
    IF i > Len(s) THEN << >> ELSE SymStep(s, SymEmit(s, i, SymMatchAt(s, i)))

\* s.replace(/(?<![A-Za-z0-9._-])[\\/]+(")([^"]*?)[\\/]+(")/g, '$1$2$3')
StripSymmetric(s) == SymFrom(s, 1)

RECURSIVE LeadFrom(_, _)
\* Mutant: the leading rule without its lookahead (?=").
LeadAt_NoLookahead(s, i, q) ==
    IF q > i /\ LookbehindOk(s, i)
    THEN LeadFrom(s, q)
    ELSE <<s[i]>> \o LeadFrom(s, i + 1)

\* q is the end of the run of [\\/] at i
LeadAt(s, i, q) ==
    IF q > i /\ LookbehindOk(s, i) /\ q <= Len(s) /\ s[q] = DQ
    THEN LeadFrom(s, q)
    ELSE <<s[i]>> \o LeadFrom(s, i + 1)

LeadFrom(s, i) == IF i > Len(s) THEN << >> ELSE LeadAt(s, i, SkipSlashChars(s, i))

\* s.replace(/(?<![A-Za-z0-9._-])[\\/]+(?=")/g, '')
StripLeading(s) == LeadFrom(s, 1)

RECURSIVE LeadForwardFrom(_, _)
\* q is the end of the run of / at i
LeadForwardAt(s, i, q) ==
    IF q > i /\ LookbehindOk(s, i) /\ q <= Len(s) /\ s[q] = DQ
    THEN LeadForwardFrom(s, q)
    ELSE <<s[i]>> \o LeadForwardFrom(s, i + 1)

LeadForwardFrom(s, i) ==
    IF i > Len(s) THEN << >> ELSE LeadForwardAt(s, i, SkipForwardSlashes(s, i))

\* s.replace(/(?<![A-Za-z0-9._-])\/+(?=")/g, '')  (strategy 5)
StripLeadingForward(s) == LeadForwardFrom(s, 1)

RECURSIVE SkipValueChars(_, _)
SkipValueChars(s, i) ==
    IF i <= Len(s) /\ s[i] # DQ /\ s[i] # SL THEN SkipValueChars(s, i + 1) ELSE i

RECURSIVE TrailFrom(_, _)
\* c is the end of [^"/]* after the quote at i, r the end of \/+ after it
TrailAt(s, i, c, r) ==
    IF r > c /\ r <= Len(s) /\ s[r] = DQ
    THEN <<DQ>> \o Sub(s, i + 1, c - 1) \o <<DQ>> \o TrailFrom(s, r + 1)
    ELSE <<s[i]>> \o TrailFrom(s, i + 1)

TrailValue(s, i, c) == TrailAt(s, i, c, SkipForwardSlashes(s, c))

TrailFrom(s, i) ==
    IF i > Len(s) THEN << >>
    ELSE IF s[i] = DQ THEN TrailValue(s, i, SkipValueChars(s, i + 1))
    ELSE <<s[i]>> \o TrailFrom(s, i + 1)

\* Mutant: the pattern without its quoted content, /\/"/g.
StripTrailingSlash_AnyContent(s) == ReplaceAll(s, <<SL, DQ>>, <<DQ>>)

\* s.replace(/"([^"/]*)\/+"/g, '"$1"')
StripTrailingSlash(s) == TrailFrom(s, 1)

RECURSIVE CommaFrom(_, _)
\* j is the end of \s* after the comma at i
CommaAt(s, i, j) ==
    IF j <= Len(s) /\ s[j] \in {"}", "]"}
    THEN <<s[j]>> \o CommaFrom(s, j + 1)
    ELSE <<s[i]>> \o CommaFrom(s, i + 1)

CommaFrom(s, i) ==
    IF i > Len(s) THEN << >>
    ELSE IF s[i] = "," THEN CommaAt(s, i, SkipJsSpace(s, i + 1))
    ELSE <<s[i]>> \o CommaFrom(s, i + 1)

\* s.replace(/,\s*([}\]])/g, '$1')
RemoveTrailingCommas(s) == CommaFrom(s, 1)

\* s.replace(/^\uFEFF/, '')
StripBom(s) == IF Len(s) >= 1 /\ s[1] = BOM THEN Tail(s) ELSE s

\* s.replace(/\r\n/g, '\n').replace(/\r/g, '\n')
NormalizeLineEndings(s) == ReplaceAll(ReplaceAll(s, <<CR, LF>>, <<LF>>), <<CR>>, <<LF>>)

\* s.replace(/^"(\{[\s\S]*\})"$/, '$1') with the given bracket pair
StripOuterQuotesOf(s, open, close) ==
    IF /\ Len(s) >= 4
       /\ s[1] = DQ /\ s[2] = open
       /\ s[Len(s) - 1] = close /\ s[Len(s)] = DQ
    THEN Sub(s, 2, Len(s) - 1)
    ELSE s

StripOuterQuotes(s) == StripOuterQuotesOf(StripOuterQuotesOf(s, "{", "}"), "[", "]")

\* The three first-occurrence substitutions that follow the leading rule.
LiteralMopUp(s) ==
    ReplaceFirst(ReplaceFirst(ReplaceFirst(s, <<SL, SL, SL, DQ>>, <<DQ>>),
                              <<SL, SL, DQ>>, <<DQ>>),
                 <<SL, DQ>>, <<DQ>>)

\* Step 5 of grafanaDeepClean: the leading rule, then the literal substitutions.
RemoveLeadingSlashes(s) == LiteralMopUp(StripLeading(s))

\* Mutant: the iteration without its third substitution, \\ -> \.
UnescapeOnce_NoBackslashPairs(s) ==
    ReplaceAll(ReplaceAll(s, <<BS, DQ>>, <<DQ>>), <<BS, SL>>, <<SL>>)

\* One iteration of the unescape loop: \" -> ", \/ -> /, \\ -> \, in that order.
UnescapeOnce(s) ==
    ReplaceAll(ReplaceAll(ReplaceAll(s, <<BS, DQ>>, <<DQ>>), <<BS, SL>>, <<SL>>),
               <<BS, BS>>, <<BS>>)

MaxIterations == 5

\* The multi-pass unescape loop: while (prev !== result && iterations < 5).
RECURSIVE UnescapeLoop(_, _, _)
UnescapeLoop(prev, result, iterations) ==
    IF prev # result /\ iterations < MaxIterations
    THEN UnescapeLoop(result, UnescapeOnce(result), iterations + 1)
    ELSE result

\* ------------------------------------------------------------------------
\* unquoteJsonStringValues
\* ------------------------------------------------------------------------

\* The bracket pairs in the order of the for loop.
BracketPairs == << <<"{", "}">>, <<"[", "]">> >>

\* result[p] of the code (0-based)
CharAt(s, p) == s[p + 1]

\* The balancing loop: the value of pos when it exits.
RECURSIVE Balance(_, _, _, _, _)
Balance(s, pos, depth, open, close) ==
    IF pos < Len(s) /\ depth > 0
    THEN Balance(s, pos + 1,
                 IF CharAt(s, pos) = open THEN depth + 1
                 ELSE IF CharAt(s, pos) = close THEN depth - 1
                 ELSE depth,
                 open, close)
    ELSE pos

\* closePos for the occurrence of :"<open> at idx (0-based)
ClosePos(s, idx, open, close) == Balance(s, idx + 3, 1, open, close) - 1

\* The test of line 258, given closePos
FollowedByQuote(s, closePos) == closePos + 1 < Len(s) /\ CharAt(s, closePos + 1) = DQ

\* The test of line 258 for the occurrence at idx.
CanStrip(s, idx, open, close) == FollowedByQuote(s, ClosePos(s, idx, open, close))

\* Mutant: the third slice taken from closePos + 1, keeping the closing quote.
Spliced_KeepsClosingQuote(s, quotePos, closePos) ==
    Sub(s, 1, quotePos) \o Sub(s, quotePos + 2, closePos + 1) \o Sub(s, closePos + 2, Len(s))

\* result.slice(0, quotePos) + result.slice(quotePos + 1, closePos + 1)
\*   + result.slice(closePos + 2)
Spliced(s, quotePos, closePos) ==
    Sub(s, 1, quotePos) \o Sub(s, quotePos + 2, closePos + 1) \o Sub(s, closePos + 3, Len(s))

StripPair(s, idx, open, close) == Spliced(s, idx + 1, ClosePos(s, idx, open, close))

\* result.indexOf(`:"${open}`, searchFrom), 0-based, -1 when there is none
FindPattern(s, open, searchFrom) == IndexOf(s, <<":", DQ, open>>, searchFrom + 1) - 1

\* The inner while loop for one bracket pair, from searchFrom.
RECURSIVE ScanKind(_, _, _, _)
\* One iteration of it, idx the outcome of indexOf
ScanAt(s, open, close, idx) ==
    IF idx = -1 THEN [changed |-> FALSE, result |-> s]
    ELSE IF CanStrip(s, idx, open, close)
    THEN [changed |-> TRUE, result |-> StripPair(s, idx, open, close)]
    ELSE ScanKind(s, open, close, idx + 1)

ScanKind(s, open, close, searchFrom) ==
    IF ~(searchFrom < Len(s)) THEN [changed |-> FALSE, result |-> s]
    ELSE ScanAt(s, open, close, FindPattern(s, open, searchFrom))

\* The for loop over the bracket pairs, from pair k: it breaks at the first
\* pair that changed the text.
RECURSIVE ScanPairs(_, _)
ScanPairsAfter(s, k, a) == IF a.changed THEN a ELSE ScanPairs(s, k + 1)

ScanPairs(s, k) ==
    IF k > Len(BracketPairs) THEN [changed |-> FALSE, result |-> s]
    ELSE ScanPairsAfter(s, k, ScanKind(s, BracketPairs[k][1], BracketPairs[k][2], 0))

\* One iteration of the outer while loop.
UnquotePass(s) == ScanPairs(s, 1)

RECURSIVE UnquoteJsonStringValues(_)
UnquoteAfter(s, p) == IF p.changed THEN UnquoteJsonStringValues(p.result) ELSE s

UnquoteJsonStringValues(s) == UnquoteAfter(s, UnquotePass(s))

\* ------------------------------------------------------------------------
\* grafanaDeepClean
\* ------------------------------------------------------------------------

\* The steps of grafanaDeepClean in order; DeepStep(k, s) is step k applied
\* to the text s left by step k - 1.
DeepStep(k, s) ==
    CASE k = 1 -> StripBom(s)
      [] k = 2 -> NormalizeLineEndings(s)
      [] k = 3 -> TryUnwrapString(TryUnwrapString(s))
      [] k = 4 -> StripSymmetric(s)
      [] k = 5 -> RemoveLeadingSlashes(s)
      [] k = 6 -> UnescapeLoop(<< >>, s, 0)
      [] k = 7 -> StripLeading(StripSymmetric(s))
      [] k = 8 -> StripTrailingSlash(s)
      [] k = 9 -> UnquoteJsonStringValues(s)
      [] k = 10 -> StripTrailingSlash(s)
      [] k = 11 -> StripOuterQuotes(s)
      [] k = 12 -> RemoveTrailingCommas(s)

NumDeepSteps == 12

RECURSIVE DeepFrom(_, _)
DeepFrom(k, s) == IF k > NumDeepSteps THEN s ELSE DeepFrom(k + 1, DeepStep(k, s))

GrafanaDeepClean(s) == DeepFrom(1, s)

\* ------------------------------------------------------------------------
\* cleanAndParseJson: the strategies
\* ------------------------------------------------------------------------

NumStrategies == 8

\* strategies[i - 1](s) throws
StrategyRaises(i, s) == i = 4 /\ WrapAndUnescapeRaises(Trim(s))

\* Mutant: the trim strategy listed before the identity.
Strategy_TrimFirst(i, s) ==
    CASE i = 1 -> Trim(s)
      [] i = 2 -> s
      [] i = 3 -> TryUnwrapString(Trim(s))
      [] i = 4 -> WrapAndUnescape(Trim(s))
      [] i = 5 -> ReplaceAll(StripLeadingForward(Trim(s)), <<BS, DQ>>, <<DQ>>)
      [] i = 6 -> StripSymmetric(Trim(s))
      [] i = 7 -> GrafanaDeepClean(Trim(s))
      [] i = 8 -> TryUnwrapString(GrafanaDeepClean(Trim(s)))

\* strategies[i - 1](s), where it does not throw
Strategy(i, s) ==
    CASE i = 1 -> s
      [] i = 2 -> Trim(s)
      [] i = 3 -> TryUnwrapString(Trim(s))
      [] i = 4 -> WrapAndUnescape(Trim(s))
      [] i = 5 -> ReplaceAll(StripLeadingForward(Trim(s)), <<BS, DQ>>, <<DQ>>)
      [] i = 6 -> StripSymmetric(Trim(s))
      [] i = 7 -> GrafanaDeepClean(Trim(s))
      [] i = 8 -> TryUnwrapString(GrafanaDeepClean(Trim(s)))

\* ------------------------------------------------------------------------
\* State
\* ------------------------------------------------------------------------

VARIABLES
    raw,          \* the text handed to the function under analysis
    pc,           \* where the running function stands
    strategyIdx,  \* cleanAndParseJson: 1-based index of the for loop
    bestAttempt,  \* cleanAndParseJson: bestAttempt
    ret,          \* cleanAndParseJson: the ParseResult returned
    evaluated,    \* cleanAndParseJson: the strategies called so far, in order
    result,       \* grafanaDeepClean / unquoteJsonStringValues: result
    step,         \* grafanaDeepClean: the next step to run (1..12)
    pass,         \* grafanaDeepClean: 1 on the input, 2 on its own output
    firstOut,     \* grafanaDeepClean: what the first pass returned
    prev,         \* unescape loop: prev
    iterations,   \* unescape loop: iterations
    changed,      \* unquoteJsonStringValues: changed
    pairIdx,      \* unquoteJsonStringValues: 1-based index of the for loop
    searchFrom,   \* unquoteJsonStringValues: searchFrom (0-based)
    outerCount    \* unquoteJsonStringValues: outer iterations begun

vars == <<raw, pc, strategyIdx, bestAttempt, ret, evaluated, result, step, pass,
          firstOut, prev, iterations, changed, pairIdx, searchFrom, outerCount>>

pipelineVars == <<strategyIdx, bestAttempt, ret, evaluated>>
deepVars == <<step, pass, firstOut>>
unescapeVars == <<prev, iterations>>
unquoteVars == <<changed, pairIdx, searchFrom, outerCount>>

NoResult == [ok |-> FALSE, value |-> << >>, bestAttempt |-> << >>, returned |-> FALSE]

PipelineIdle ==
    /\ strategyIdx = 0 /\ bestAttempt = << >> /\ ret = NoResult /\ evaluated = << >>
DeepIdle == step = 0 /\ pass = 0 /\ firstOut = << >>
UnescapeIdle == prev = << >> /\ iterations = 0
UnquoteIdle == changed = FALSE /\ pairIdx = 0 /\ searchFrom = 0 /\ outerCount = 0

\* ------------------------------------------------------------------------
\* Inputs: concatenations of at most MaxFrags fragments
\* ------------------------------------------------------------------------

RECURSIVE Flatten(_)
Flatten(ss) == IF ss = << >> THEN << >> ELSE Head(ss) \o Flatten(Tail(ss))

\* Every concatenation of at most n members of the sequence of fragments fs.
Concats(fs, n) ==
    UNION { { Flatten([i \in 1..k |-> fs[f[i]]]) : f \in [1..k -> DOMAIN fs] } : k \in 0..n }

MaxFrags == 3

PipelineFrags ==
    << <<DQ>>, <<BS, DQ>>, <<BS, BS, DQ>>, <<SL, DQ>>, <<DQ, DQ>>,
       <<"1">>, <<"[">>, <<"]">>, <<",">>, <<" ">>, <<BOM>> >>

\* ------------------------------------------------------------------------
\* cleanAndParseJson
\* ------------------------------------------------------------------------

\* strategy(raw) throws
Throws == StrategyRaises(strategyIdx, raw)

\* Mutant: the strategies chained, each fed the previous candidate.
Cleaned_Chained == Strategy(strategyIdx, bestAttempt)

\* const cleaned = strategy(raw)
Cleaned == Strategy(strategyIdx, raw)

InitPipeline ==
    /\ raw \in Concats(PipelineFrags, MaxFrags)
    /\ pc = "loop"
    /\ strategyIdx = 1
    /\ bestAttempt = raw
    /\ ret = NoResult
    /\ evaluated = << >>
    /\ result = << >>
    /\ DeepIdle /\ UnescapeIdle /\ UnquoteIdle

\* The strategy throws: the catch block, then the next strategy.
StrategyThrows ==
    /\ pc = "loop" /\ strategyIdx <= NumStrategies
    /\ Throws
    /\ evaluated' = Append(evaluated, strategyIdx)
    /\ strategyIdx' = strategyIdx + 1
    /\ UNCHANGED <<raw, pc, bestAttempt, ret, result, deepVars, unescapeVars, unquoteVars>>

\* Mutant: bestAttempt assigned only after a successful parse.
ParseRejects_NoRecord ==
    /\ pc = "loop" /\ strategyIdx <= NumStrategies
    /\ ~Throws
    /\ ~JsonOk(Cleaned)
    /\ evaluated' = Append(evaluated, strategyIdx)
    /\ strategyIdx' = strategyIdx + 1
    /\ UNCHANGED <<raw, pc, bestAttempt, ret, result, deepVars, unescapeVars, unquoteVars>>

\* The candidate is recorded; JSON.parse throws on it: the next strategy.
ParseRejects ==
    /\ pc = "loop" /\ strategyIdx <= NumStrategies
    /\ ~Throws
    /\ \E cleaned \in {Cleaned} :
        /\ ~JsonOk(cleaned)
        /\ bestAttempt' = cleaned
    /\ evaluated' = Append(evaluated, strategyIdx)
    /\ strategyIdx' = strategyIdx + 1
    /\ UNCHANGED <<raw, pc, ret, result, deepVars, unescapeVars, unquoteVars>>

\* The candidate is recorded; JSON.parse accepts it: return { ok: true, ... }.
ParseAccepts ==
    /\ pc = "loop" /\ strategyIdx <= NumStrategies
    /\ ~Throws
    /\ \E cleaned \in {Cleaned} :
        \E parsed \in {JsonParse(cleaned)} :
            /\ parsed.ok
            /\ bestAttempt' = cleaned
            /\ ret' = [ok |-> TRUE, value |-> parsed.val, bestAttempt |-> cleaned,
                       returned |-> TRUE]
    /\ evaluated' = Append(evaluated, strategyIdx)
    /\ pc' = "done"
    /\ UNCHANGED <<raw, strategyIdx, result, deepVars, unescapeVars, unquoteVars>>

\* The loop is over: return { ok: false, error, bestAttempt }.
ReturnFailure ==
    /\ pc = "loop" /\ strategyIdx > NumStrategies
    /\ ret' = [ok |-> FALSE, value |-> << >>, bestAttempt |-> bestAttempt, returned |-> TRUE]
    /\ pc' = "done"
    /\ UNCHANGED <<raw, strategyIdx, bestAttempt, evaluated, result, deepVars, unescapeVars,
                   unquoteVars>>

NextPipeline == StrategyThrows \/ ParseRejects \/ ParseAccepts \/ ReturnFailure

SpecPipeline == InitPipeline /\ [][NextPipeline]_vars

\* ------------------------------------------------------------------------
\* Properties of cleanAndParseJson
\* ------------------------------------------------------------------------

\* The lowest-numbered strategy from i on that does not throw on s and whose
\* candidate JSON.parse accepts; 0 when there is none.
RECURSIVE FirstAccepted(_, _)
FirstAccepted(s, i) ==
    IF i > NumStrategies THEN 0
    ELSE IF ~StrategyRaises(i, s) /\ JsonOk(Strategy(i, s)) THEN i
    ELSE FirstAccepted(s, i + 1)

Returned(w) ==
    IF ret.ok
    THEN w > 0 /\ Len(evaluated) = w /\ ret.bestAttempt = Strategy(w, raw)
    ELSE w = 0 /\ Len(evaluated) = NumStrategies

Skipped(w) == Len(evaluated) = strategyIdx - 1 /\ (w = 0 \/ w > Len(evaluated))

\* C1: the strategies are evaluated in the order 1, 2, ..., each on the
\* original raw input; a strategy that throws or whose candidate does not
\* parse is skipped; the call returns success with the candidate of the
\* lowest-numbered strategy that does not throw and whose candidate parses,
\* and no later strategy is evaluated.
C1_FirstAcceptedWins ==
    /\ evaluated = [k \in 1..Len(evaluated) |-> k]
    /\ pc = "loop" => Skipped(FirstAccepted(raw, 1))
    /\ pc = "done" => Returned(FirstAccepted(raw, 1))

\* Strategy 4 threw, strategy 5 was rejected, and a later strategy won.
C1_Witness ==
    /\ pc = "done" /\ ret.ok
    /\ Len(evaluated) >= 6
    /\ StrategyRaises(4, raw)

\* C2: a failure outcome carries strategy 8's output as bestAttempt.
C2_FailureBestAttempt ==
    (pc = "done" /\ ~ret.ok) =>
        ret.bestAttempt = TryUnwrapString(GrafanaDeepClean(Trim(raw)))

\* A failure on an input on which strategy 4 threw and whose strategy 8
\* output differs from the raw input.
C2_Witness ==
    /\ pc = "done" /\ ~ret.ok
    /\ StrategyRaises(4, raw)
    /\ ret.bestAttempt # raw

\* C3: an input JSON.parse accepts is returned by strategy 1, unmodified,
\* with the value of parsing it directly.
C3_ValidInputUntouched ==
    (pc = "done" /\ JsonOk(raw)) =>
        /\ ret.ok
        /\ ret.bestAttempt = raw
        /\ ret.value = JsonParse(raw).val
        /\ evaluated = <<1>>

\* A valid input that the trim and the deep clean would both have changed.
C3_Witness ==
    /\ pc = "done" /\ ret.ok /\ JsonOk(raw)
    /\ Trim(raw) # raw
    /\ GrafanaDeepClean(Trim(raw)) # Trim(raw)

\* ------------------------------------------------------------------------
\* The unescape loop of grafanaDeepClean, one iteration at a time
\* ------------------------------------------------------------------------

MaxRun == 16

Backslashes(k) == [i \in 1..k |-> BS]

\* A run of backslashes and the character it escapes.
EscapedChars == { Backslashes(k) \o <<c>> : k \in 0..MaxRun, c \in {DQ, SL, "a"} }

\* Five backslashes before each quote around key.
EscapedKey == <<BS, BS, BS, BS, BS, DQ, "k", "e", "y", BS, BS, BS, BS, BS, DQ>>

\* Nothing, one escaped character or two of them, and the example.
UnescapeInputs ==
    { a \o b : a, b \in EscapedChars \cup {<< >>} } \cup {EscapedKey}

InitUnescape ==
    /\ raw \in UnescapeInputs
    /\ pc = "unescape"
    /\ result = raw
    /\ prev = << >>
    /\ iterations = 0
    /\ PipelineIdle /\ DeepIdle /\ UnquoteIdle

\* while (prev !== result && iterations < 5)
LoopCondition == prev # result /\ iterations < MaxIterations

\* One execution of the loop body.
UnescapeBody ==
    /\ pc = "unescape"
    /\ LoopCondition
    /\ prev' = result
    /\ result' = UnescapeOnce(result)
    /\ iterations' = iterations + 1
    /\ UNCHANGED <<raw, pc, pipelineVars, deepVars, unquoteVars>>

\* The loop condition is false: the loop is left.
UnescapeExit ==
    /\ pc = "unescape"
    /\ ~LoopCondition
    /\ pc' = "done"
    /\ UNCHANGED <<raw, result, pipelineVars, deepVars, unescapeVars, unquoteVars>>

NextUnescape == UnescapeBody \/ UnescapeExit

SpecUnescape == InitUnescape /\ [][NextUnescape]_vars

\* ------------------------------------------------------------------------
\* Properties of the unescape loop
\* ------------------------------------------------------------------------

\* The number of backslashes immediately before position q of s.
RECURSIVE RunBefore(_, _)
RunBefore(s, q) == IF q > 1 /\ s[q - 1] = BS THEN 1 + RunBefore(s, q - 1) ELSE 0

QuotePositions(s) == { q \in 1..Len(s) : s[q] = DQ }

\* C8: the body of the unescape loop runs at most 5 times; the loop is left
\* before the fifth iteration only when the last iteration changed nothing,
\* and never runs again after such an iteration; and when every quote of the
\* input is preceded by at most 15 backslashes, the loop is left with no
\* backslash immediately before a quote.
C8_UnescapeBounded ==
    /\ iterations <= 5
    /\ (pc = "done" /\ iterations < 5) => prev = result
    /\ (pc = "unescape" /\ iterations >= 1 /\ prev = result) => ~ENABLED UnescapeBody
    /\ (pc = "done" /\ \A q \in QuotePositions(raw) : RunBefore(raw, q) <= 15)
           => \A q \in QuotePositions(result) : RunBefore(result, q) = 0

\* Fifteen backslashes before a quote, resolved by the fifth iteration.
C8_Witness ==
    /\ pc = "done"
    /\ iterations = 5
    /\ \E q \in QuotePositions(raw) : RunBefore(raw, q) = 15
    /\ \A q \in QuotePositions(raw) : RunBefore(raw, q) <= 15
    /\ \A q \in QuotePositions(result) : RunBefore(result, q) = 0

\* ------------------------------------------------------------------------
\* unquoteJsonStringValues, one loop iteration at a time
\* ------------------------------------------------------------------------

MaxUnquoteFrags == 4

UnquoteFrags ==
    << <<":", DQ, "{">>, <<":", DQ, "[">>, <<"}", DQ>>, <<"]", DQ>>,
       <<"{">>, <<"}">>, <<"[">>, <<"]">>, <<DQ>>, <<":">> >>

\* {"a":"{"b":"{"c":1}"}"}
TwoLevels ==
    <<"{", DQ, "a", DQ, ":", DQ, "{", DQ, "b", DQ, ":", DQ, "{", DQ, "c",
      DQ, ":", "1", "}", DQ, "}", DQ, "}">>

\* {"Content":"{"key":"val"}"}
OneLevel ==
    <<"{", DQ, "C", "o", "n", "t", "e", "n", "t", DQ, ":", DQ, "{", DQ,
      "k", "e", "y", DQ, ":", DQ, "v", "a", "l", DQ, "}", DQ, "}">>

UnquoteExamples == {TwoLevels, OneLevel}

InitUnquote ==
    /\ raw \in Concats(UnquoteFrags, MaxUnquoteFrags) \cup UnquoteExamples
    /\ pc = "while"
    /\ result = raw
    /\ changed = TRUE
    /\ pairIdx = 0
    /\ searchFrom = 0
    /\ outerCount = 0
    /\ PipelineIdle /\ DeepIdle /\ UnescapeIdle

\* The bracket pair of the current for iteration.
Open == BracketPairs[pairIdx][1]
Close == BracketPairs[pairIdx][2]

\* while (changed): the body is entered, the for loop starts at the first pair.
EnterOuter ==
    /\ pc = "while"
    /\ changed
    /\ changed' = FALSE
    /\ pairIdx' = 1
    /\ searchFrom' = 0
    /\ outerCount' = outerCount + 1
    /\ pc' = "scan"
    /\ UNCHANGED <<raw, result, pipelineVars, deepVars, unescapeVars>>

\* while (changed) is false: return result.
ReturnResult ==
    /\ pc = "while"
    /\ ~changed
    /\ pc' = "done"
    /\ UNCHANGED <<raw, result, pipelineVars, deepVars, unescapeVars, unquoteVars>>

\* The inner while loop is left without a change: searchFrom reached the end
\* of the text, or indexOf found nothing.
ScanOver ==
    \/ ~(searchFrom < Len(result))
    \/ FindPattern(result, Open, searchFrom) = -1

\* The inner loop is over for the first pair: the for loop goes on.
NextPair ==
    /\ pc = "scan"
    /\ ScanOver
    /\ pairIdx < Len(BracketPairs)
    /\ pairIdx' = pairIdx + 1
    /\ searchFrom' = 0
    /\ UNCHANGED <<raw, pc, result, changed, outerCount, pipelineVars, deepVars,
                   unescapeVars>>

\* The inner loop is over for the last pair: back to while (changed).
EndPass ==
    /\ pc = "scan"
    /\ ScanOver
    /\ pairIdx = Len(BracketPairs)
    /\ pc' = "while"
    /\ UNCHANGED <<raw, result, pipelineVars, deepVars, unescapeVars, unquoteVars>>

\* Mutant: the search resumes at idx instead of idx + 1.
SkipOccurrence_SameIndex ==
    /\ pc = "scan"
    /\ searchFrom < Len(result)
    /\ \E idx \in {FindPattern(result, Open, searchFrom)} :
        /\ idx # -1
        /\ ~CanStrip(result, idx, Open, Close)
        /\ searchFrom' = idx
    /\ UNCHANGED <<raw, pc, result, changed, pairIdx, outerCount, pipelineVars, deepVars,
                   unescapeVars>>

\* An occurrence whose close is not followed by a quote: searchFrom = idx + 1.
SkipOccurrence ==
    /\ pc = "scan"
    /\ searchFrom < Len(result)
    /\ \E idx \in {FindPattern(result, Open, searchFrom)} :
        /\ idx # -1
        /\ ~CanStrip(result, idx, Open, Close)
        /\ searchFrom' = idx + 1
    /\ UNCHANGED <<raw, pc, result, changed, pairIdx, outerCount, pipelineVars, deepVars,
                   unescapeVars>>

\* An occurrence whose close is followed by a quote: the two quotes are cut
\* out, changed is set, and both the inner loop and the for loop break.
StripQuotes ==
    /\ pc = "scan"
    /\ searchFrom < Len(result)
    /\ \E idx \in {FindPattern(result, Open, searchFrom)} :
        /\ idx # -1
        /\ CanStrip(result, idx, Open, Close)
        /\ result' = StripPair(result, idx, Open, Close)
    /\ changed' = TRUE
    /\ pc' = "while"
    /\ UNCHANGED <<raw, pairIdx, searchFrom, outerCount, pipelineVars, deepVars,
                   unescapeVars>>

NextUnquote ==
    \/ EnterOuter
    \/ ReturnResult
    \/ NextPair
    \/ EndPass
    \/ SkipOccurrence
    \/ StripQuotes

\* Every iteration of the loops is eventually followed by the next step.
SpecUnquote == InitUnquote /\ [][NextUnquote]_vars /\ WF_vars(NextUnquote)

\* ------------------------------------------------------------------------
\* Properties of unquoteJsonStringValues
\* ------------------------------------------------------------------------

\* A step that sets changed cuts exactly two characters out of result, no
\* other step touches result, and a step that stays in the inner loop of
\* one bracket pair moves searchFrom forward.
ShrinksOrAdvances ==
    /\ (~changed /\ changed') => Len(result') = Len(result) - 2
    /\ result' # result => (~changed /\ changed')
    /\ (pc = "scan" /\ pc' = "scan" /\ pairIdx' = pairIdx) => searchFrom' > searchFrom

\* C7: unquoteJsonStringValues terminates: an outer iteration that sets
\* changed shortens the text by exactly two characters, every inner scan
\* moves searchFrom strictly forward, the outer loop is entered at most
\* length / 2 + 1 times, and the function eventually returns.
C7_Terminates ==
    /\ [][ShrinksOrAdvances]_vars
    /\ [](outerCount <= Len(raw) \div 2 + 1)
    /\ <>(pc = "done")

\* A call that returned after stripping a pair of quotes in its first outer
\* iteration and skipping, in every iteration, an occurrence that is still
\* in the text.
C7_Witness ==
    /\ pc = "done"
    /\ outerCount = 2
    /\ Len(result) = Len(raw) - 2
    /\ \E i \in 1..Len(result) - 2 :
        result[i] = ":" /\ result[i + 1] = DQ /\ result[i + 2] \in {"{", "["}

\* The positions (1-based, of the colon) where :"<open> occurs in s.
Occurrences(s, open) ==
    { i \in 1..Len(s) - 2 : s[i] = ":" /\ s[i + 1] = DQ /\ s[i + 2] = open }

\* How many of the positions a..b of s hold the character c.
Count(s, c, a, b) == Cardinality({ p \in a..b : s[p] = c })

\* The nesting depth, counting only this kind of bracket, after position p
\* for the bracket opened by the occurrence at i.
Depth(s, i, p, open, close) == 1 + Count(s, open, i + 3, p) - Count(s, close, i + 3, p)

\* The matching close of the occurrence at i: where the depth first reaches 0.
MatchingClose(s, i, open, close) ==
    { p \in i + 3..Len(s) :
        /\ Depth(s, i, p, open, close) = 0
        /\ \A r \in i + 3..p - 1 : Depth(s, i, r, open, close) > 0 }

\* The matching closes of the occurrence at i that a quote follows.
QuotedClose(s, i, open, close) ==
    { p \in MatchingClose(s, i, open, close) : p < Len(s) /\ s[p + 1] = DQ }

\* The occurrences whose matching close exists and is followed by a quote.
Strippable(s, open, close) ==
    { i \in Occurrences(s, open) : QuotedClose(s, i, open, close) # {} }

\* The quote after the colon and the quote after the matching close, for
\* every strippable occurrence.
QuotePairs(s, open, close) ==
    UNION { {i + 1} \cup { p + 1 : p \in QuotedClose(s, i, open, close) } :
            i \in Strippable(s, open, close) }

RECURSIVE Without(_, _, _)
\* s from position i on, without the positions in gone.
Without(s, gone, i) ==
    IF i > Len(s) THEN << >>
    ELSE (IF i \in gone THEN << >> ELSE <<s[i]>>) \o Without(s, gone, i + 1)

\* C10: the returned text is the input without the two quotes of every
\* occurrence of :"{ or :"[ whose matching close of the same kind is
\* followed by a quote, every other character kept in order (an occurrence
\* whose close is missing or not followed by a quote loses nothing), and it
\* holds no strippable occurrence of either kind.
C10_OnlyQuotePairsDeleted ==
    pc = "done" =>
        /\ result = Without(raw, QuotePairs(raw, "{", "}") \cup QuotePairs(raw, "[", "]"), 1)
        /\ Len(result) = Len(raw) - 2 * Cardinality(Strippable(raw, "{", "}"))
                                  - 2 * Cardinality(Strippable(raw, "[", "]"))
        /\ Strippable(result, "{", "}") = {} /\ Strippable(result, "[", "]") = {}

\* The two-level example, unquoted to {"a":{"b":{"c":1}}} by one call.
C10_Witness ==
    /\ pc = "done"
    /\ raw = TwoLevels
    /\ result = <<"{", DQ, "a", DQ, ":", "{", DQ, "b", DQ, ":", "{", DQ, "c", DQ, ":",
                  "1", "}", "}", "}">>

\* ------------------------------------------------------------------------
\* The slash substitutions of grafanaDeepClean, each applied to a text
\* ------------------------------------------------------------------------

MaxSlashLen == 7

SlashAlphabet == {DQ, SL, BS, "a", ":"}

\* "CommerceId/"
CommerceId == <<DQ, "C", "o", "m", "m", "e", "r", "c", "e", "I", "d", SL, DQ>>

\* "https://example.com/"
ExampleUrl ==
    <<DQ, "h", "t", "t", "p", "s", ":", SL, SL, "e", "x", "a", "m", "p",
      "l", "e", ".", "c", "o", "m", SL, DQ>>

\* "/some/path/"
SomePath == <<DQ, SL, "s", "o", "m", "e", SL, "p", "a", "t", "h", SL, DQ>>

\* /"key/"
WrappedKey == <<SL, DQ, "k", "e", "y", SL, DQ>>

\* ///"value///"
WrappedValue == <<SL, SL, SL, DQ, "v", "a", "l", "u", "e", SL, SL, SL, DQ>>

\* ///"status///":///"ok///"
WrappedPair ==
    <<SL, SL, SL, DQ, "s", "t", "a", "t", "u", "s", SL, SL, SL, DQ, ":",
      SL, SL, SL, DQ, "o", "k", SL, SL, SL, DQ>>

SlashExamples == {CommerceId, ExampleUrl, SomePath, WrappedKey, WrappedValue, WrappedPair}

\* Every text of at most n characters of the alphabet cs.
Texts(cs, n) == UNION { [1..k -> cs] : k \in 0..n }

InitSlash ==
    /\ raw \in Texts(SlashAlphabet, MaxSlashLen) \cup SlashExamples
    /\ pc = "start"
    /\ result = raw
    /\ PipelineIdle /\ DeepIdle /\ UnescapeIdle /\ UnquoteIdle

\* result = result.replace(/"([^"/]*)\/+"/g, '"$1"')
ApplyTrailingSlash ==
    /\ pc = "start"
    /\ result' = StripTrailingSlash(result)
    /\ pc' = "trailing"
    /\ UNCHANGED <<raw, pipelineVars, deepVars, unescapeVars, unquoteVars>>

\* result = result.replace(SLASH_DELIM_SYMMETRIC, '$1$2$3').replace(SLASH_DELIM_LEADING, '')
ApplySlashDelimiters ==
    /\ pc = "start"
    /\ result' = StripLeading(StripSymmetric(result))
    /\ pc' = "delimiters"
    /\ UNCHANGED <<raw, pipelineVars, deepVars, unescapeVars, unquoteVars>>

NextSlash == ApplyTrailingSlash \/ ApplySlashDelimiters

SpecSlash == InitSlash /\ [][NextSlash]_vars

\* ------------------------------------------------------------------------
\* Properties of the slash substitutions
\* ------------------------------------------------------------------------

\* s is one quoted value: a quote, a content without quotes, a quote.
IsQuotedValue(s) ==
    /\ Len(s) >= 2
    /\ s[1] = DQ /\ s[Len(s)] = DQ
    /\ \A i \in 2..Len(s) - 1 : s[i] # DQ

\* The last position of s, at or before j, that does not hold a member of cs.
RECURSIVE LastOutside(_, _, _)
LastOutside(s, j, cs) == IF j >= 1 /\ s[j] \in cs THEN LastOutside(s, j - 1, cs) ELSE j

\* The content of the quoted value s is a slash-free prefix and then one or
\* more slashes.
SlashFreeThenSlashes(s) ==
    /\ s[Len(s) - 1] = SL
    /\ \A i \in 2..LastOutside(s, Len(s) - 1, {SL}) : s[i] # SL

\* The content of the quoted value s has a slash with a non-slash after it.
HasInternalSlash(s) ==
    \E i \in 2..Len(s) - 1 : \E j \in i + 1..Len(s) - 1 : s[i] = SL /\ s[j] # SL

\* C5: the trailing-slash substitution turns a quoted value whose content
\* is a slash-free prefix x and then one or more slashes into "x", and
\* leaves a quoted value whose content has an internal slash unchanged.
C5_TrailingSlash ==
    (pc = "trailing" /\ IsQuotedValue(raw)) =>
        /\ SlashFreeThenSlashes(raw) =>
               result = Sub(raw, 1, LastOutside(raw, Len(raw) - 1, {SL})) \o <<DQ>>
        /\ HasInternalSlash(raw) => result = raw

\* "CommerceId/" became "CommerceId".
C5_Witness ==
    /\ pc = "trailing"
    /\ raw = CommerceId
    /\ result = <<DQ, "C", "o", "m", "m", "e", "r", "c", "e", "I", "d", DQ>>

\* The first position of s, at or after i, that holds a member of cs;
\* Len(s) + 1 when there is none.
RECURSIVE FirstInside(_, _, _)
FirstInside(s, i, cs) ==
    IF i <= Len(s) /\ s[i] \notin cs THEN FirstInside(s, i + 1, cs) ELSE i

\* s without the runs of slash characters that a quote immediately follows.
RECURSIVE WithoutQuoteRuns(_, _)
WithoutQuoteRuns(s, i) ==
    IF i > Len(s) THEN << >>
    ELSE IF IsSlashChar(s[i])
    THEN (IF SkipSlashChars(s, i) <= Len(s) /\ s[SkipSlashChars(s, i)] = DQ
          THEN << >>
          ELSE Sub(s, i, SkipSlashChars(s, i) - 1))
         \o WithoutQuoteRuns(s, SkipSlashChars(s, i))
    ELSE <<s[i]>> \o WithoutQuoteRuns(s, i + 1)

\* The first quote or slash character of s opens a wrapped token: a run of
\* slash characters at a not preceded by a letter, digit, '.', '_' or '-',
\* then the quote q1, a content, a run of slash characters and the quote q2.
WrappedTokenAt(s, a, q1, q2) ==
    /\ a <= Len(s) /\ IsSlashChar(s[a])
    /\ a = 1 \/ ~IsWordish(s[a - 1])
    /\ q1 <= Len(s) /\ s[q1] = DQ
    /\ q2 <= Len(s)
    /\ IsSlashChar(s[q2 - 1])

\* What is left of the wrapped token: the text before it, the bare quoted
\* token, and the text after it with the stripper applied to it.
BareToken(s, a, q1, q2) ==
    Sub(s, 1, a - 1) \o <<DQ>> \o Sub(s, q1 + 1, LastOutside(s, q2 - 1, {SL, BS}))
        \o <<DQ>> \o StripLeading(StripSymmetric(Sub(s, q2 + 1, Len(s))))

TokenAfter(s, a, q1) ==
    WrappedTokenAt(s, a, q1, FirstInside(s, q1 + 1, {DQ}))
        => result = BareToken(s, a, q1, FirstInside(s, q1 + 1, {DQ}))

FirstToken(s, a) == a <= Len(s) => TokenAfter(s, a, SkipSlashChars(s, a))

\* t ends s
IsSuffix(t, s) == Len(t) <= Len(s) /\ Sub(s, Len(s) - Len(t) + 1, Len(s)) = t

\* The bare quoted token and the stripped text after it, for the wrapped
\* token whose leading run starts at a.
BareTail(s, q1, q2) ==
    <<DQ>> \o Sub(s, q1 + 1, LastOutside(s, q2 - 1, {SL, BS})) \o <<DQ>>
        \o StripLeading(StripSymmetric(Sub(s, q2 + 1, Len(s))))

AnyTokenAfter(s, a, q1) ==
    WrappedTokenAt(s, a, q1, FirstInside(s, q1 + 1, {DQ}))
        => IsSuffix(BareTail(s, q1, FirstInside(s, q1 + 1, {DQ})), result)

\* C6 as stated: every quoted token wrapped in runs of slash characters on
\* both sides, the leading run not preceded by a letter, digit, '.', '_' or
\* '-', wherever it stands in the text, comes out as the bare quoted token.
C6_AnyWrappedToken ==
    pc = "delimiters" =>
        \A a \in 1..Len(raw) :
            (a = 1 \/ ~IsSlashChar(raw[a - 1])) => AnyTokenAfter(raw, a, SkipSlashChars(raw, a))

\* C6, amended: the stripper (symmetric rule, then leading rule) turns a
\* quoted token wrapped in runs of slash characters on both sides, the
\* leading run not preceded by a letter, digit, '.', '_' or '-', into the
\* bare quoted token when no quote or slash character stands before the
\* token, and so token after token; and the only characters it removes
\* belong to runs of slash characters that a quote follows.
C6_SlashDelimiters ==
    pc = "delimiters" =>
        /\ FirstToken(raw, FirstInside(raw, 1, {DQ, SL, BS}))
        /\ WithoutQuoteRuns(result, 1) = WithoutQuoteRuns(raw, 1)

\* ///"status///":///"ok///" became "status":"ok".
C6_Witness ==
    /\ pc = "delimiters"
    /\ raw = WrappedPair
    /\ result = <<DQ, "s", "t", "a", "t", "u", "s", DQ, ":", DQ, "o", "k", DQ>>

\* ------------------------------------------------------------------------
\* grafanaDeepClean, one step at a time, then called again on its own output
\* ------------------------------------------------------------------------

MaxDeepFrags == 3

DeepFrags ==
    << <<DQ>>, <<SL, DQ>>, <<BS, DQ>>, <<SL>>, <<BS>>, <<"a">>, <<"1">>, <<"[">>, <<"]">>,
       <<"{">>, <<"}">>, <<",">>, <<":">>, ExampleUrl >>

\* {"u":"https://example.com/"}
UrlDocument == <<"{", DQ, "u", DQ, ":">> \o ExampleUrl \o <<"}">>

\* [[1,],]
NestedArrays == <<"[", "[", "1", ",", "]", ",", "]">>

\* [[1]]
ValidArrays == <<"[", "[", "1", "]", "]">>

\* A byte order mark, then [1, and 2] on two lines that end in \r\n
WindowsDocument == <<BOM, "[", "1", ",", CR, LF, "2", "]", CR, LF>>

DeepExamples ==
    {UrlDocument, NestedArrays, ValidArrays, WindowsDocument, WrappedPair, TwoLevels,
     EscapedKey}

InitDeep ==
    /\ raw \in Concats(DeepFrags, MaxDeepFrags) \cup DeepExamples
    /\ pc = "deep"
    /\ result = raw
    /\ step = 1
    /\ pass = 1
    /\ firstOut = << >>
    /\ PipelineIdle /\ UnescapeIdle /\ UnquoteIdle

\* The next step of the function body, applied to result.
RunDeepStep ==
    /\ pc = "deep"
    /\ step <= NumDeepSteps
    /\ result' = DeepStep(step, result)
    /\ step' = step + 1
    /\ UNCHANGED <<raw, pc, pass, firstOut, pipelineVars, unescapeVars, unquoteVars>>

\* return result: the caller keeps the output of the first call.
ReturnFirst ==
    /\ pc = "deep"
    /\ step > NumDeepSteps
    /\ firstOut' = result
    /\ pass' = 2
    /\ pc' = "again"
    /\ UNCHANGED <<raw, result, step, pipelineVars, unescapeVars, unquoteVars>>

\* grafanaDeepClean called on the output of the first call.
RunAgain ==
    /\ pc = "again"
    /\ result' = GrafanaDeepClean(firstOut)
    /\ pc' = "done"
    /\ UNCHANGED <<raw, step, pass, firstOut, pipelineVars, unescapeVars, unquoteVars>>

NextDeep == RunDeepStep \/ ReturnFirst \/ RunAgain

SpecDeep == InitDeep /\ [][NextDeep]_vars

\* ------------------------------------------------------------------------
\* Properties of grafanaDeepClean
\* ------------------------------------------------------------------------

Occurs(s, v) == \E p \in 1..Len(s) : OccursAt(s, v, p)

\* A comma, optional white space and a closing bracket at i.
CommaBeforeClose(s, i) ==
    /\ s[i] = ","
    /\ SkipJsSpace(s, i + 1) <= Len(s)
    /\ s[SkipJsSpace(s, i + 1)] \in {"}", "]"}

\* s gives no step of grafanaDeepClean anything to match: it does not start
\* with a quote, and holds no backslash, no carriage return, no slash
\* before a quote, no comma before a closing bracket, no :"{ and no :"[.
IsSettled(s) ==
    /\ Len(s) >= 1 /\ s[1] # DQ
    /\ \A i \in 1..Len(s) : s[i] \notin {BS, CR} /\ ~CommaBeforeClose(s, i)
    /\ ~Occurs(s, <<SL, DQ>>)
    /\ ~Occurs(s, <<":", DQ, "{">>) /\ ~Occurs(s, <<":", DQ, "[">>)

HoldsFirstSlashQuote(s, v) ==
    \E p \in 1..Len(s) :
        /\ OccursAt(s, v, p)
        /\ IndexOf(s, <<SL, DQ>>, 1) = p + Len(v) - 2

\* The text that step 5 receives on the input s.
BeforeStep5(s) == DeepStep(4, DeepStep(3, DeepStep(2, DeepStep(1, s))))

\* C9: step 5 (the leading rule, then the three literal substitutions)
\* leaves a slash before a quote alone when the slash run follows a letter,
\* digit, '.', '_' or '-'; so when the quoted URL value
\* "https://example.com/" holds the first slash-before-quote of the text,
\* step 5 keeps that value, and the output of grafanaDeepClean holds it
\* unchanged, trailing slash included.
C9_UrlValueKept ==
    /\ (pc = "deep" /\ pass = 1 /\ step = 6
            /\ HoldsFirstSlashQuote(BeforeStep5(raw), ExampleUrl))
           => Occurs(result, ExampleUrl)
    /\ (pc = "again" /\ HoldsFirstSlashQuote(raw, ExampleUrl))
           => Occurs(firstOut, ExampleUrl)

====
